---- MODULE Spec2Model ----
(***************************************************************************)
(* Model of src/src/sync-vehicles.js: the CarLink24 vehicle sync.  One     *)
(* process run is the module-level startup followed by main(): load the    *)
(* known fingerprints, launch the browser, scrape every dealer of the      *)
(* roster (scrapeDealer / scrapeListingDetails / processAndUploadImage),   *)
(* insert the collected listings and write the sync log.  The database     *)
(* (the listings table) outlives a run; everything else is per process.    *)
(*                                                                         *)
(* Every await that can reject, and every Supabase call that can return    *)
(* an error, is a choice of the environment in the action that models it.  *)
(***************************************************************************)
EXTENDS Integers, Sequences, FiniteSets, TLC

\* ------------------------------------------------------------- bounds

\* Dealers on the roster (config.dealers) of the main specification.
NumDealers == 2
\* Candidate listings on the whole site, dealt to the dealers in blocks.
NumCands == 4
\* Process runs in a row over the same database.
MaxRuns == 2
\* Largest number of source images on the page of the image specification.
MaxSrcImages == 11
\* Failed images the environment produces for one listing.
MaxImageFaults == 2
\* Words before and after the key in a raw text, after the make in a title.
MaxExtraWords == 1

\* ------------------------------------------------- program constants

\* scrapeListingDetails: Math.min(rawData.images.length, 10)
IMAGE_LIMIT == 10

\* A value that may be absent (null in the program): <<>> or <<v>>.
None == <<>>

Some(v) == <<v>>

Min(a, b) == IF a <= b THEN a ELSE b

Take(s, n) == SubSeq(s, 1, Min(Len(s), n))

Range(s) == {s[k] : k \in 1..Len(s)}

\* ------------------------------------------------------------ source

\* The site as the page-fetch layer delivers it: per dealer the detail links
\* of the search page in document order, per listing the parsed fields of its
\* page and the number of distinct source images.
PageSize == (NumCands + NumDealers - 1) \div NumDealers

SearchPage(d) ==
    [k \in 1..Min(PageSize, NumCands - Min(NumCands, (d - 1) * PageSize)) |->
        (d - 1) * PageSize + k]

\* The a[href*="/fahrzeuge/details.html?id="] elements of a search page, each
\* named by the id of its href: every listing is linked twice in a row (image
\* and title), and the first listing once more at the end of the page.
Anchors(d) ==
    LET ids == SearchPage(d)
        n == Len(ids)
    IN  [k \in 1..(IF n = 0 THEN 0 ELSE 2 * n + 1) |->
            IF k > 2 * n THEN ids[1] ELSE ids[(k + 1) \div 2]]

\* The vehicle a listing page shows: the last listing of the site shows the
\* same vehicle as the first one.
Vehicle(c) == ((c - 1) % (NumCands - 1)) + 1

RawData(c) ==
    [make |-> Some("BMW"), model |-> Some("320d"),
     mileage |-> Some(1000 * Vehicle(c)),
     firstRegistration |-> Some("202103"),
     price |-> Some(9000 + 100 * c)]

MainSite ==
    [search |-> [d \in 1..NumDealers |-> Anchors(d)],
     nimg |-> [c \in 1..NumCands |-> c % 3]]

ImageSites ==
    {[search |-> [d \in {1} |-> <<1, 1>>], nimg |-> [c \in {1} |-> n]] :
        n \in 0..MaxSrcImages}

MainConfigs ==
    {[dealers |-> [d \in 1..NumDealers |-> d], maxListingsPerDealer |-> p,
      maxTotalListings |-> t] : p \in 1..PageSize, t \in 0..NumCands}

ImageConfigs ==
    {[dealers |-> <<1>>, maxListingsPerDealer |-> 1, maxTotalListings |-> 1]}

\* parseInt(process.env.MAX_LISTINGS_OVERRIDE || '0'): 0 when the variable is
\* not set.  An override is drawn only over the largest configured cap.
Overrides(file) == IF file.maxTotalListings = NumCands THEN {0, 1} ELSE {0}

\* --------------------------------------------------- helper functions

\* `${x || ''}` of a string-or-null field.
OrEmpty(x) == IF x = None THEN "" ELSE x[1]

\* `${mileage || ''}` of a number-or-null field: 0 is falsy.
NumOrEmpty(n) ==
    IF n = None THEN "" ELSE IF n[1] = 0 THEN "" ELSE ToString(n[1])

\* generateFingerprint: the string handed to md5 (the digest is taken as
\* injective on it).
generateFingerprint(make, model, mileage, firstRegistration) ==
    OrEmpty(make) \o "|" \o OrEmpty(model) \o "|" \o NumOrEmpty(mileage)
        \o "|" \o OrEmpty(firstRegistration)

\* As FingerprintOf, but the price is hashed as well.
FingerprintOfWithPrice(c) ==
    LET r == RawData(c)
    IN  generateFingerprint(r.make, r.model, r.mileage, r.firstRegistration)
            \o "|" \o NumOrEmpty(r.price)

\* scrapeListingDetails: the fingerprint of the listing a page shows.
FingerprintOf(c) ==
    LET r == RawData(c)
    IN  generateFingerprint(r.make, r.model, r.mileage, r.firstRegistration)

IsDuplicateAlwaysNew(fingerprint, known) == FALSE

\* existingFingerprints.has(fingerprint)
IsDuplicate(fingerprint, known) == fingerprint \in known

MaxImagesUncapped(n) == n

\* const maxImages = Math.min(rawData.images.length, 10)
MaxImages(n) == Min(n, IMAGE_LIMIT)

\* ------------------------------------------- translation maps, parsers

\* The translation maps: the entries of each object literal in the order of
\* Object.entries (the order they are written in).
fuelTypeMap ==
    << [key |-> "Benzin", val |-> "PETROL"],
       [key |-> "Diesel", val |-> "DIESEL"],
       [key |-> "Elektro", val |-> "ELECTRIC"],
       [key |-> "Hybrid", val |-> "HYBRID"],
       [key |-> "Hybrid (Benzin)", val |-> "HYBRID_PETROL"],
       [key |-> "Hybrid (Benzin/Elektro)", val |-> "HYBRID_PETROL"],
       [key |-> "Hybrid (Diesel)", val |-> "HYBRID_DIESEL"],
       [key |-> "Plug-in-Hybrid", val |-> "PLUGIN_HYBRID"],
       [key |-> "LPG", val |-> "LPG"],
       [key |-> "CNG", val |-> "CNG"],
       [key |-> "Erdgas", val |-> "CNG"],
       [key |-> "Wasserstoff", val |-> "HYDROGEN"] >>

gearboxMap ==
    << [key |-> "Automatik", val |-> "AUTOMATIC"],
       [key |-> "Schaltgetriebe", val |-> "MANUAL"],
       [key |-> "Schaltung", val |-> "MANUAL"],
       [key |-> "Halbautomatik", val |-> "SEMI_AUTOMATIC"] >>

bodyTypeMap ==
    << [key |-> "Limousine", val |-> "SEDAN"],
       [key |-> "Kombi", val |-> "WAGON"],
       [key |-> "SUV", val |-> "SUV"],
       [key |-> "Geländewagen", val |-> "SUV"],
       [key |-> "Coupé", val |-> "COUPE"],
       [key |-> "Coupe", val |-> "COUPE"],
       [key |-> "Sportwagen/Coupé", val |-> "SPORTS_COUPE"],
       [key |-> "Sportwagen", val |-> "SPORTS"],
       [key |-> "Cabrio", val |-> "CONVERTIBLE"],
       [key |-> "Cabriolet", val |-> "CONVERTIBLE"],
       [key |-> "Roadster", val |-> "ROADSTER"],
       [key |-> "Kleinwagen", val |-> "COMPACT"],
       [key |-> "Van", val |-> "VAN"],
       [key |-> "Van/Minibus", val |-> "MPV"],
       [key |-> "Pickup", val |-> "PICKUP"],
       [key |-> "Andere", val |-> "OTHER"] >>

driveTypeMap ==
    << [key |-> "Verbrennungsmotor", val |-> "ICE"],
       [key |-> "Elektro", val |-> "ELECTRIC"],
       [key |-> "Elektroantrieb", val |-> "ELECTRIC"],
       [key |-> "Hybrid", val |-> "HYBRID"],
       [key |-> "Hybridantrieb", val |-> "HYBRID"],
       [key |-> "Plug-in-Hybrid", val |-> "PLUGIN_HYBRID"] >>

climateMap ==
    << [key |-> "Klimaanlage", val |-> "AUTOMATIC"],
       [key |-> "Klimaautomatik", val |-> "AUTOMATIC"],
       [key |-> "2-Zonen-Klimaautomatik", val |-> "TWO_ZONE"],
       [key |-> "3-Zonen-Klimaautomatik", val |-> "THREE_ZONE"],
       [key |-> "4-Zonen-Klimaautomatik", val |-> "FOUR_ZONE"],
       [key |-> "Manuelle Klimaanlage", val |-> "MANUAL"] >>

colorMap ==
    << [key |-> "Weiß", val |-> "WHITE"],
       [key |-> "Schwarz", val |-> "BLACK"],
       [key |-> "Silber", val |-> "SILVER"],
       [key |-> "Grau", val |-> "GRAY"],
       [key |-> "Rot", val |-> "RED"],
       [key |-> "Blau", val |-> "BLUE"],
       [key |-> "Grün", val |-> "GREEN"],
       [key |-> "Braun", val |-> "BROWN"],
       [key |-> "Beige", val |-> "BEIGE"],
       [key |-> "Gold", val |-> "GOLD"],
       [key |-> "Orange", val |-> "ORANGE"],
       [key |-> "Gelb", val |-> "YELLOW"],
       [key |-> "Violett", val |-> "PURPLE"],
       [key |-> "Bronze", val |-> "BRONZE"],
       [key |-> "Anthrazit", val |-> "ANTHRACITE"] >>

interiorMaterialMap ==
    << [key |-> "Leder", val |-> "LEATHER"],
       [key |-> "Vollleder", val |-> "FULL_LEATHER"],
       [key |-> "Teilleder", val |-> "PARTIAL_LEATHER"],
       [key |-> "Stoff", val |-> "FABRIC"],
       [key |-> "Alcantara", val |-> "ALCANTARA"],
       [key |-> "Velours", val |-> "VELOUR"] >>

\* The translation maps by name.
MapNames ==
    {"fuelTypeMap", "gearboxMap", "bodyTypeMap", "driveTypeMap",
     "climateMap", "colorMap", "interiorMaterialMap"}

MapOf(name) ==
    CASE name = "fuelTypeMap" -> fuelTypeMap
      [] name = "gearboxMap" -> gearboxMap
      [] name = "bodyTypeMap" -> bodyTypeMap
      [] name = "driveTypeMap" -> driveTypeMap
      [] name = "climateMap" -> climateMap
      [] name = "colorMap" -> colorMap
      [] name = "interiorMaterialMap" -> interiorMaterialMap

\* parseMakeModel's knownMakes, in order.
knownMakes ==
    << "Mercedes-Benz", "BMW", "Audi", "Volkswagen", "Porsche", "Ford",
       "Opel", "Toyota", "Honda", "Mazda", "Nissan", "Hyundai", "Kia",
       "Volvo", "Skoda", "Seat", "Renault", "Peugeot", "Citroën", "Fiat",
       "Alfa Romeo", "Jaguar", "Land Rover", "Range Rover", "Mini", "Tesla",
       "Lexus", "Infiniti" >>

\* The least element of a non-empty set of numbers: the first index at which
\* a loop over a list stops.
First(S) == CHOOSE k \in S : \A j \in S : k <= j

Last(S) == CHOOSE k \in S : \A j \in S : j <= k

\* The character of string s at position k (from 1).
CharAt(s, k) == SubSeq(s, k, k)

\* The letters String.prototype.toLowerCase changes, among those of the
\* texts drawn, and what it changes them to.
UpperCaseLetters == "ABCDEFGHIJKLMNOPQRSTUVWXYZÄÖÜÉ"

LowerCaseLetters == "abcdefghijklmnopqrstuvwxyzäöüé"

LowerCaseOf ==
    [ch \in {CharAt(UpperCaseLetters, k) : k \in 1..Len(UpperCaseLetters)} |->
        CharAt(LowerCaseLetters,
               CHOOSE k \in 1..Len(UpperCaseLetters) :
                    CharAt(UpperCaseLetters, k) = ch)]

ToLowerChar(ch) == IF ch \in DOMAIN LowerCaseOf THEN LowerCaseOf[ch] ELSE ch

\* String.prototype.toLowerCase
RECURSIVE toLowerCase(_)
toLowerCase(s) ==
    IF s = ""
    THEN ""
    ELSE ToLowerChar(CharAt(s, 1)) \o toLowerCase(SubSeq(s, 2, Len(s)))

\* The positions of string s at which string t occurs.
Occurrences(s, t) ==
    {k \in 1..(Len(s) - Len(t) + 1) : SubSeq(s, k, k + Len(t) - 1) = t}

\* String.prototype.includes
includes(s, t) == Occurrences(s, t) # {}

\* String.prototype.startsWith
startsWith(s, t) == 1 \in Occurrences(s, t)

\* String.prototype.trim, for the blank as the only white space.
trim(s) ==
    LET inked == {k \in 1..Len(s) : CharAt(s, k) # " "}
    IN  IF inked = {} THEN "" ELSE SubSeq(s, First(inked), Last(inked))

\* String.prototype.split for a separator of one character.
RECURSIVE split(_, _)
split(s, sep) ==
    LET at == Occurrences(s, sep)
    IN  IF at = {}
        THEN <<s>>
        ELSE <<SubSeq(s, 1, First(at) - 1)>>
                \o split(SubSeq(s, First(at) + 1, Len(s)), sep)

\* Array.prototype.join
RECURSIVE join(_, _)
join(parts, sep) ==
    IF parts = <<>>
    THEN ""
    ELSE IF Len(parts) = 1
    THEN parts[1]
    ELSE parts[1] \o sep \o join(Tail(parts), sep)

\* The properties every object literal inherits from Object.prototype; each
\* is a function or an object, hence truthy.
ObjectPrototypeKeys ==
    {"constructor", "__proto__", "hasOwnProperty", "isPrototypeOf",
     "propertyIsEnumerable", "toLocaleString", "toString", "valueOf",
     "__defineGetter__", "__defineSetter__", "__lookupGetter__",
     "__lookupSetter__"}

\* The member of Object.prototype of the given name, as a value.
Inherited(name) == <<"Object.prototype", name>>

\* map[value] for a map that is an object literal: the own property, else
\* the inherited one, else undefined.
Get(map, value) ==
    LET own == {k \in 1..Len(map) : map[k].key = value}
    IN  IF own # {}
        THEN Some(map[First(own)].val)
        ELSE IF value \in ObjectPrototypeKeys
        THEN Inherited(value)
        ELSE None

\* !value of a string or null.
Falsy(value) == value = None \/ value = Some("")

\* normalizeValue: map[value] if truthy, else the value of the first entry
\* whose key equals the value in lower case, else that of the first entry
\* whose key in lower case occurs in the value in lower case, else null.
normalizeValue(value, map) ==
    IF Falsy(value)
    THEN None
    ELSE LET lower == toLowerCase(value[1])
             same == {k \in 1..Len(map) : toLowerCase(map[k].key) = lower}
             part == {k \in 1..Len(map) :
                        includes(lower, toLowerCase(map[k].key))}
         IN  IF Get(map, value[1]) # None
             THEN Get(map, value[1])
             ELSE IF same # {}
             THEN Some(map[First(same)].val)
             ELSE IF part # {}
             THEN Some(map[First(part)].val)
             ELSE None

\* colorString.replace(/\s*metallic\s*/i, ''): the first occurrence of
\* "metallic" in any case is cut out with the blanks around it.
removeMetallic(s) ==
    LET at == Occurrences(toLowerCase(s), "metallic")
    IN  IF at = {}
        THEN s
        ELSE LET k == First(at)
                 from == First({j \in 1..k :
                            \A m \in j..(k - 1) : CharAt(s, m) = " "})
                 to == Last({j \in (k + 7)..Len(s) :
                            \A m \in (k + 8)..j : CharAt(s, m) = " "})
             IN  SubSeq(s, 1, from - 1) \o SubSeq(s, to + 1, Len(s))

\* parseColor
parseColor(colorString) ==
    IF Falsy(colorString)
    THEN [color |-> None, metallic |-> FALSE]
    ELSE [color |->
            normalizeValue(Some(trim(removeMetallic(colorString[1]))),
                           colorMap),
          metallic |-> includes(toLowerCase(colorString[1]), "metallic")]

\* The loop of parseInterior over the parts from position k on.
RECURSIVE parseInteriorFrom(_, _, _)
parseInteriorFrom(parts, k, found) ==
    IF k > Len(parts)
    THEN found
    ELSE parseInteriorFrom(parts, k + 1,
            [material |->
                IF found.material = None
                THEN normalizeValue(Some(parts[k]), interiorMaterialMap)
                ELSE found.material,
             color |->
                IF found.color = None
                THEN normalizeValue(Some(parts[k]), colorMap)
                ELSE found.color])

\* parseInterior
parseInterior(interiorString) ==
    IF Falsy(interiorString)
    THEN [material |-> None, color |-> None]
    ELSE LET raw == split(interiorString[1], ",")
             parts == [k \in 1..Len(raw) |-> trim(raw[k])]
         IN  parseInteriorFrom(parts, 1, [material |-> None, color |-> None])

\* As parseMakeModel, but a title no known make begins has no make.
parseMakeModelKnownOnly(title) ==
    IF Falsy(title)
    THEN [make |-> None, model |-> None]
    ELSE LET known == {k \in 1..Len(knownMakes) :
                            startsWith(title[1], knownMakes[k])}
         IN  IF known # {}
             THEN LET make == knownMakes[First(known)]
                  IN  [make |-> Some(make),
                       model |-> Some(trim(SubSeq(title[1], Len(make) + 1,
                                                  Len(title[1]))))]
             ELSE [make |-> None, model |-> Some(title[1])]

\* parseMakeModel: the first known make the title begins with and the
\* trimmed rest; failing that, the title's first word and the other words.
parseMakeModel(title) ==
    IF Falsy(title)
    THEN [make |-> None, model |-> None]
    ELSE LET known == {k \in 1..Len(knownMakes) :
                            startsWith(title[1], knownMakes[k])}
             parts == split(title[1], " ")
         IN  IF known # {}
             THEN LET make == knownMakes[First(known)]
                  IN  [make |-> Some(make),
                       model |-> Some(trim(SubSeq(title[1], Len(make) + 1,
                                                  Len(title[1]))))]
             ELSE [make |-> Some(parts[1]),
                   model |-> Some(join(Tail(parts), " "))]

\* The enum-typed fields of the listing object, for a page that shows the
\* same text under each of their labels.
EnumFields(raw) ==
    [fuel |-> normalizeValue(raw, fuelTypeMap),
     gearbox |-> normalizeValue(raw, gearboxMap),
     body_type |-> normalizeValue(raw, bodyTypeMap),
     drive_type |-> normalizeValue(raw, driveTypeMap),
     exterior_color |-> parseColor(raw).color,
     interior_color |-> parseInterior(raw).color,
     interior_material |-> parseInterior(raw).material,
     climate |-> normalizeValue(raw, climateMap)]

\* The map each enum-typed field is translated with.
MapOfField ==
    [fuel |-> "fuelTypeMap", gearbox |-> "gearboxMap",
     body_type |-> "bodyTypeMap", drive_type |-> "driveTypeMap",
     exterior_color |-> "colorMap", interior_color |-> "colorMap",
     interior_material |-> "interiorMaterialMap", climate |-> "climateMap"]

\* Every concatenation of up to n of the given words.
RECURSIVE Concats(_, _)
Concats(words, n) ==
    IF n = 0
    THEN {""}
    ELSE LET shorter == Concats(words, n - 1)
         IN  shorter \cup {s \o w : s \in shorter, w \in words}

Keys(map) == {map[k].key : k \in 1..Len(map)}

Trimmed(texts) == {t \in texts : trim(t) = t}

\* The texts a page shows under a label (findValue trims them): a key of
\* the maps as written or in lower case, or a word that is no key, or
\* nothing, with up to MaxExtraWords words before it and after it; two keys
\* with a comma between them; the names of the members of Object.prototype.
RawTexts(maps) ==
    LET keys == UNION {Keys(MapOf(m)) : m \in maps}
        cores == keys \cup {toLowerCase(k) : k \in keys} \cup {"", "Strom"}
        before == Concats({"Super "}, MaxExtraWords)
        after == Concats({" Plus", " Metallic"}, MaxExtraWords)
    IN  Trimmed({a \o c \o b : a \in before, c \in cores, b \in after}
                    \cup {k1 \o ", " \o k2 : k1 \in keys, k2 \in keys}
                    \cup ObjectPrototypeKeys)

\* The titles drawn (the page's title, trimmed): a known make, or another
\* word, or nothing, with up to MaxExtraWords words after it.
Titles ==
    LET heads == Range(knownMakes) \cup {"", "Dacia", "Mercedes", "Rover"}
        after == Concats({" Duster", " C 200", " "}, MaxExtraWords)
    IN  Trimmed({h \o b : h \in heads, b \in after})

\* A string, or null.
Nullable(texts) == {None} \cup {Some(t) : t \in texts}

Digits == "0123456789"

IsDigit(ch) == \E k \in 1..Len(Digits) : CharAt(Digits, k) = ch

\* value.replace(/[^\d]/g, '')
RECURSIVE digitsOnly(_)
digitsOnly(s) ==
    IF s = ""
    THEN ""
    ELSE (IF IsDigit(CharAt(s, 1)) THEN CharAt(s, 1) ELSE "")
            \o digitsOnly(SubSeq(s, 2, Len(s)))

\* parseInt(cleaned, 10) of a non-empty string of digits.
RECURSIVE parseInt(_)
parseInt(s) ==
    IF s = ""
    THEN 0
    ELSE 10 * parseInt(SubSeq(s, 1, Len(s) - 1))
            + (CHOOSE k \in 1..Len(Digits) :
                    CharAt(Digits, k) = CharAt(s, Len(s))) - 1

\* parseNumeric: null for a falsy value and for a value without a digit
\* (parseInt gives NaN), else the number its digits spell.
parseNumeric(value) ==
    IF Falsy(value)
    THEN None
    ELSE LET cleaned == digitsOnly(value[1])
         IN  IF cleaned = "" THEN None ELSE Some(parseInt(cleaned))

\* parseRegistration: null for a falsy value, YYYYMM for the first MM/YYYY
\* the string holds, else the string.
parseRegistration(regString) ==
    IF Falsy(regString)
    THEN None
    ELSE LET str == regString[1]
             match == {k \in 1..(Len(str) - 6) :
                        /\ \A j \in {0, 1, 3, 4, 5, 6} :
                                IsDigit(CharAt(str, k + j))
                        /\ CharAt(str, k + 2) = "/"}
         IN  IF match = {}
             THEN Some(str)
             ELSE LET k == First(match)
                  IN  Some(SubSeq(str, k + 3, k + 6) \o SubSeq(str, k, k + 1))

\* The fields of the fingerprint, as scrapeListingDetails parses them from
\* the raw data of a listing page.
Identity(rawData) ==
    [make |-> parseMakeModel(rawData.title).make,
     model |-> parseMakeModel(rawData.title).model,
     mileage |-> parseNumeric(rawData.mileage),
     firstRegistration |-> parseRegistration(rawData.firstRegistration)]

\* scrapeListingDetails: the fingerprint of a listing page's raw data.
FingerprintOfPage(rawData) ==
    LET id == Identity(rawData)
    IN  generateFingerprint(id.make, id.model, id.mileage,
                            id.firstRegistration)

\* The raw data of the listing pages that are drawn: title, mileage text and
\* registration text, each absent or as the page shows it.
Pages ==
    [title : Nullable({"BMW 320d", "Dacia|Duster 1.2", "Dacia Duster|1.2"}),
     mileage : Nullable({"0 km", "85.000 km", "85.001 km", "k. A."}),
     firstRegistration : Nullable({"03/2021", "EZ 04/2021"})]

\* The calls of the parsers that are drawn.
ParserCalls ==
    UNION {{[fn |-> "normalizeValue", arg |-> a, map |-> m] :
                a \in Nullable(RawTexts({m}))} : m \in MapNames}
        \cup {[fn |-> "parseMakeModel", arg |-> a, map |-> ""] :
                a \in Nullable(Titles)}
        \cup {[fn |-> "scrapeListingDetails", arg |-> a, map |-> ""] :
                a \in Nullable(RawTexts({"colorMap",
                                         "interiorMaterialMap"}))}
        \cup {[fn |-> "generateFingerprint", arg |-> <<p1, p2>>,
               map |-> ""] : p1 \in Pages, p2 \in Pages}

NoCall == [fn |-> "none", arg |-> None, map |-> ""]

\* ------------------------------------------------------------- state

VARIABLES
    configFile,            \* the content of config/dealers.json
    maxOverride,           \* MAX_LISTINGS_OVERRIDE of the environment, parsed
    config,                \* main's config: None until it is loaded
    site,                  \* the source site (never changes)
    db,                    \* fingerprints of the rows of the listings table
    run,                   \* which process run this is
    pc,                    \* where the process is
    exit,                  \* how the process ended: code and cause
    existingFingerprints,  \* main's existingFingerprints
    browserOpen,           \* the puppeteer browser is launched and not closed
    syncLog,               \* the module-level syncLog
    allListings,           \* main's allListings
    dealerIdx,             \* position of main's for-of loop in config.dealers
    pageOpen,              \* scrapeDealer's page is open
    limitedUrls,           \* scrapeDealer's limitedUrls
    listings,              \* scrapeDealer's listings
    i,                     \* scrapeDealer's loop index
    imgIdx,                \* scrapeListingDetails' image loop index
    imageUrls,             \* scrapeListingDetails' imageUrls
    imagePage,             \* processAndUploadImage's imagePage is open
    openPages,             \* pages got from newPage() and not closed since
    insertIdx,             \* position of main's insert loop in allListings
    paced,                 \* a delay() ended since the last search or listing
                           \* page.goto was issued
    \* history of the run, for stating properties
    loads,                 \* calls of getExistingFingerprints
    loadFailed,            \* the fingerprint query returned an error
    fetched,               \* listing ids whose page.goto was issued, in order
    threw,                 \* listing ids whose scrapeListingDetails threw
    attempted,             \* <<listing id, index>> of every processAndUploadImage
                           \* call that has returned or thrown
    rehosted,              \* <<listing id, index>> of the calls that returned a URL
    dealerFaults,          \* rejected awaits of scrapeDealer outside the listing loop
    insertCalls,           \* listing ids handed to insertListing, in order
    prev,                  \* how the previous run ended
    \* the parser specification
    call,                  \* the parser call that is made
    returned,              \* the call has returned
    result                 \* what it returned

vars ==
    <<configFile, maxOverride, config, site, db, run, pc, exit, existingFingerprints, browserOpen,
      syncLog, allListings, dealerIdx, pageOpen, limitedUrls, listings, i,
      imgIdx, imageUrls, imagePage, openPages, insertIdx, paced, loads,
      loadFailed, fetched, threw, attempted, rehosted, dealerFaults,
      insertCalls, prev, call, returned, result>>

NoExit == [code |-> -1, cause |-> "none"]

FreshSyncLog ==
    [dealers |-> <<>>, listingsFound |-> 0, listingsNew |-> 0,
     listingsSkipped |-> 0, imagesUploaded |-> 0, errors |-> <<>>,
     completedAt |-> FALSE]

\* The state of a process that has just been started.
ProcessStart ==
    /\ pc = "boot"
    /\ config = None
    /\ exit = NoExit
    /\ existingFingerprints = {}
    /\ browserOpen = FALSE
    /\ syncLog = FreshSyncLog
    /\ allListings = <<>>
    /\ dealerIdx = 1
    /\ pageOpen = FALSE
    /\ limitedUrls = <<>>
    /\ listings = <<>>
    /\ i = 0
    /\ imgIdx = 0
    /\ imageUrls = <<>>
    /\ imagePage = FALSE
    /\ openPages = 0
    /\ insertIdx = 1
    /\ paced = FALSE
    /\ loads = 0
    /\ loadFailed = FALSE
    /\ fetched = <<>>
    /\ threw = {}
    /\ attempted = {}
    /\ rehosted = {}
    /\ dealerFaults = 0
    /\ insertCalls = <<>>

NoPrev == [ran |-> FALSE, errorFree |-> FALSE, capReached |-> FALSE]

InitWith(sites, configs) ==
    /\ site \in sites
    /\ configFile \in configs
    /\ maxOverride \in Overrides(configFile)
    /\ db \in {{}, {FingerprintOf(1)}}
    /\ run = 1
    /\ prev = NoPrev
    /\ ProcessStart
    /\ call = NoCall
    /\ returned = FALSE
    /\ result = None

Init == InitWith({MainSite}, MainConfigs)

InitImages == InitWith(ImageSites, ImageConfigs)

\* The parser specification: a process that is not started, and one call.
InitParsers ==
    /\ site = MainSite
    /\ configFile \in ImageConfigs
    /\ maxOverride = 0
    /\ db = {}
    /\ run = 1
    /\ prev = NoPrev
    /\ ProcessStart
    /\ call \in ParserCalls
    /\ returned = FALSE
    /\ result = None

\* ------------------------------------------------------------ startup

PushError(entry) == [syncLog EXCEPT !.errors = Append(@, entry)]

mainLocals == <<allListings, dealerIdx, insertIdx>>

dealerLocals == <<pageOpen, limitedUrls, listings, i>>

imageLocals == <<imgIdx, imageUrls>>

scrapeHistory == <<fetched, threw, attempted, rehosted>>

parserVars == <<call, returned, result>>

pages == <<imagePage, openPages>>

world == <<configFile, maxOverride, site, run, prev, parserVars>>

fixed == <<world, config>>

\* As CheckCredentials, but missing credentials are only reported.
CheckCredentialsWarnsOnly ==
    /\ pc = "boot"
    /\ \E present \in BOOLEAN :
        IF present
        THEN pc' = "config" /\ exit' = exit
        ELSE pc' = "config" /\ exit' = [code |-> -1, cause |-> "credentials"]
    /\ UNCHANGED <<fixed, pages, paced, db, existingFingerprints, browserOpen,
                   syncLog, mainLocals, dealerLocals, imageLocals, loads,
                   loadFailed, scrapeHistory, dealerFaults, insertCalls>>

\* Module level: SUPABASE_URL and SUPABASE_SERVICE_ROLE_KEY must be set.
CheckCredentials ==
    /\ pc = "boot"
    /\ \E present \in BOOLEAN :
        IF present
        THEN pc' = "config" /\ exit' = exit
        ELSE pc' = "exited" /\ exit' = [code |-> 1, cause |-> "credentials"]
    /\ UNCHANGED <<fixed, pages, paced, db, existingFingerprints, browserOpen, syncLog,
                   mainLocals, dealerLocals, imageLocals, loads, loadFailed,
                   scrapeHistory, dealerFaults, insertCalls>>

\* As LoadConfig, but MAX_LISTINGS_OVERRIDE is not applied.
LoadConfigIgnoresOverride ==
    /\ pc = "config"
    /\ \E outcome \in {"ok", "unreadable", "disabled"} :
        CASE outcome = "ok" ->
                /\ config' = configFile
                /\ pc' = "fingerprints"
                /\ exit' = exit
          [] outcome = "unreadable" ->
                /\ config' = config
                /\ pc' = "exited"
                /\ exit' = [code |-> 1, cause |-> "config"]
          [] outcome = "disabled" ->
                /\ config' = configFile
                /\ pc' = "exited"
                /\ exit' = [code |-> 0, cause |-> "disabled"]
    /\ UNCHANGED <<world, pages, paced, db, existingFingerprints, browserOpen,
                   syncLog, mainLocals, dealerLocals, imageLocals, loads,
                   loadFailed, scrapeHistory, dealerFaults, insertCalls>>

\* main: read and parse config/dealers.json, check settings.enabled, let a
\* positive MAX_LISTINGS_OVERRIDE replace settings.maxTotalListings.
LoadConfig ==
    /\ pc = "config"
    /\ \E outcome \in {"ok", "unreadable", "disabled"} :
        CASE outcome = "ok" ->
                /\ config' =
                        IF maxOverride > 0
                        THEN [configFile EXCEPT
                                    !.maxTotalListings = maxOverride]
                        ELSE configFile
                /\ pc' = "fingerprints"
                /\ exit' = exit
          [] outcome = "unreadable" ->
                /\ config' = config
                /\ pc' = "exited"
                /\ exit' = [code |-> 1, cause |-> "config"]
          [] outcome = "disabled" ->
                /\ config' = configFile
                /\ pc' = "exited"
                /\ exit' = [code |-> 0, cause |-> "disabled"]
    /\ UNCHANGED <<world, pages, paced, db, existingFingerprints, browserOpen, syncLog,
                   mainLocals, dealerLocals, imageLocals, loads, loadFailed,
                   scrapeHistory, dealerFaults, insertCalls>>

\* As GetExistingFingerprints, but the rows of a successful query are dropped.
GetExistingFingerprintsDropsRows ==
    /\ pc = "fingerprints"
    /\ \E error \in BOOLEAN :
        /\ existingFingerprints' = {}
        /\ loadFailed' = error
    /\ loads' = loads + 1
    /\ pc' = "launch"
    /\ UNCHANGED <<fixed, pages, paced, db, exit, browserOpen, syncLog, mainLocals,
                   dealerLocals, imageLocals, scrapeHistory, dealerFaults,
                   insertCalls>>

\* As GetExistingFingerprints, but an error of the query ends the process.
GetExistingFingerprintsAbortsOnError ==
    /\ pc = "fingerprints"
    /\ \E error \in BOOLEAN :
        /\ existingFingerprints' = IF error THEN {} ELSE db
        /\ loadFailed' = error
        /\ pc' = IF error THEN "exited" ELSE "launch"
        /\ exit' = IF error THEN [code |-> 1, cause |-> "fingerprints"]
                            ELSE exit
    /\ loads' = loads + 1
    /\ UNCHANGED <<fixed, pages, paced, db, browserOpen, syncLog, mainLocals,
                   dealerLocals, imageLocals, scrapeHistory, dealerFaults,
                   insertCalls>>

\* getExistingFingerprints: the set of the table's fingerprints, or the empty
\* set when the query returns an error.
GetExistingFingerprints ==
    /\ pc = "fingerprints"
    /\ \E error \in BOOLEAN :
        /\ existingFingerprints' = IF error THEN {} ELSE db
        /\ loadFailed' = error
    /\ loads' = loads + 1
    /\ pc' = "launch"
    /\ UNCHANGED <<fixed, pages, paced, db, exit, browserOpen, syncLog, mainLocals,
                   dealerLocals, imageLocals, scrapeHistory, dealerFaults,
                   insertCalls>>

\* main: puppeteer.launch, outside the try block: a rejection reaches
\* main().catch.
LaunchBrowser ==
    /\ pc = "launch"
    /\ \E launched \in BOOLEAN :
        IF launched
        THEN browserOpen' = TRUE /\ pc' = "dealers" /\ exit' = exit
        ELSE /\ browserOpen' = browserOpen
             /\ pc' = "exited"
             /\ exit' = [code |-> 1, cause |-> "launch"]
    /\ UNCHANGED <<fixed, pages, paced, db, existingFingerprints, syncLog, mainLocals,
                   dealerLocals, imageLocals, loads, loadFailed,
                   scrapeHistory, dealerFaults, insertCalls>>

\* ------------------------------------------------------- scrapeDealer

Dealer == config.dealers[dealerIdx]

\* main's loop head and scrapeDealer's first line: the dealer is pushed on
\* syncLog.dealers, then browser.newPage() runs before scrapeDealer's try, so
\* its rejection leaves scrapeDealer and unwinds main through its finally.
BeginDealer ==
    /\ pc = "dealers"
    /\ dealerIdx <= Len(config.dealers)
    /\ syncLog' = [syncLog EXCEPT !.dealers = Append(@, Dealer)]
    /\ \E opened \in BOOLEAN :
        IF opened
        THEN /\ pageOpen' = TRUE
             /\ openPages' = openPages + 1
             /\ pc' = "search"
             /\ UNCHANGED <<exit, dealerFaults>>
        ELSE /\ pageOpen' = pageOpen
             /\ openPages' = openPages
             /\ pc' = "abort"
             /\ exit' = [code |-> -1, cause |-> "dealer-open"]
             /\ dealerFaults' = dealerFaults + 1
    /\ listings' = <<>>
    /\ limitedUrls' = <<>>
    /\ i' = 0
    /\ UNCHANGED <<fixed, imagePage, paced, db, existingFingerprints, browserOpen, mainLocals,
                   imageLocals, loads, loadFailed, scrapeHistory, insertCalls>>

\* The page.evaluate of scrapeDealer: the ids of the links in document order,
\* each id once (seenIds).
RECURSIVE listingUrls(_)
listingUrls(links) ==
    IF links = <<>>
    THEN <<>>
    ELSE LET urls == listingUrls(SubSeq(links, 1, Len(links) - 1))
             id == links[Len(links)]
         IN  IF id \in Range(urls) THEN urls ELSE Append(urls, id)

\* The outcomes of a page.goto with what follows it up to the first use of
\* the page's content: the goto rejects; the goto resolves, the delay after it
\* elapses and the page.evaluate rejects; all resolve.
PageOutcomes == {"goto-rejects", "read-rejects", "loaded"}

\* As DealerSearch, but without the cut to maxListingsPerDealer.
DealerSearchUncut ==
    /\ pc = "search"
    /\ \E outcome \in PageOutcomes :
        /\ paced' = (outcome # "goto-rejects")
        /\ IF outcome = "loaded"
           THEN /\ limitedUrls' = listingUrls(site.search[Dealer])
                /\ i' = 0
                /\ pc' = "listing"
                /\ UNCHANGED <<syncLog, dealerFaults>>
           ELSE /\ syncLog' = PushError([type |-> "dealer", ref |-> Dealer])
                /\ dealerFaults' = dealerFaults + 1
                /\ pc' = "pageclose"
                /\ UNCHANGED <<limitedUrls, i>>
    /\ UNCHANGED <<fixed, pages, db, exit, existingFingerprints, browserOpen,
                   mainLocals, pageOpen, listings, imageLocals, loads,
                   loadFailed, scrapeHistory, insertCalls>>

\* scrapeDealer: page.goto of the search page, delay(3000) and the extraction
\* of the listing URLs, cut to maxListingsPerDealer; a rejection is caught by
\* the outer catch, which records a 'dealer' error.
DealerSearch ==
    /\ pc = "search"
    /\ \E outcome \in PageOutcomes :
        /\ paced' = (outcome # "goto-rejects")
        /\ IF outcome = "loaded"
           THEN /\ limitedUrls' = Take(listingUrls(site.search[Dealer]),
                                       config.maxListingsPerDealer)
                /\ i' = 0
                /\ pc' = "listing"
                /\ UNCHANGED <<syncLog, dealerFaults>>
           ELSE /\ syncLog' = PushError([type |-> "dealer", ref |-> Dealer])
                /\ dealerFaults' = dealerFaults + 1
                /\ pc' = "pageclose"
                /\ UNCHANGED <<limitedUrls, i>>
    /\ UNCHANGED <<fixed, pages, db, exit, existingFingerprints, browserOpen,
                   mainLocals, pageOpen, listings, imageLocals, loads,
                   loadFailed, scrapeHistory, insertCalls>>

Candidate == limitedUrls[i + 1]

\* The price the listing object carries (parseNumeric(rawData.price)).
Price(c) == RawData(c).price

\* As ScrapeListing, but without the inner try/catch: a rejection reaches
\* scrapeDealer's outer catch and ends the dealer's loop.
ScrapeListingNoInnerCatch ==
    /\ pc = "listing"
    /\ i < Len(limitedUrls)
    /\ fetched' = Append(fetched, Candidate)
    /\ \E outcome \in PageOutcomes :
        /\ paced' = (outcome # "goto-rejects")
        /\ IF outcome # "loaded"
           THEN /\ threw' = threw \cup {Candidate}
                /\ syncLog' = PushError([type |-> "dealer", ref |-> Dealer])
                /\ pc' = "pageclose"
                /\ UNCHANGED <<i, imageLocals>>
           ELSE IF IsDuplicate(FingerprintOf(Candidate), existingFingerprints)
           THEN /\ syncLog' = [syncLog EXCEPT !.listingsSkipped = @ + 1]
                /\ i' = i + 1
                /\ UNCHANGED <<pc, imageLocals, threw>>
           ELSE /\ imgIdx' = 0
                /\ imageUrls' = <<>>
                /\ pc' = "images"
                /\ UNCHANGED <<syncLog, i, threw>>
    /\ UNCHANGED <<fixed, pages, db, exit, existingFingerprints, browserOpen,
                   mainLocals, pageOpen, limitedUrls, listings, loads,
                   loadFailed, attempted, rehosted, dealerFaults, insertCalls>>

\* One turn of scrapeDealer's loop up to the dedup check of
\* scrapeListingDetails: the page is fetched (page.goto, delay(2000)) and
\* read, the fingerprint is computed and looked up.  A rejection is caught by
\* the inner catch, which records a 'scrape' error and goes on with the next
\* turn; a known fingerprint counts a skip, and the turn ends with delay(2000).
ScrapeListing ==
    /\ pc = "listing"
    /\ i < Len(limitedUrls)
    /\ fetched' = Append(fetched, Candidate)
    /\ \E outcome \in PageOutcomes :
        /\ paced' = (outcome # "goto-rejects")
        /\ IF outcome # "loaded"
           THEN /\ threw' = threw \cup {Candidate}
                /\ syncLog' =
                        PushError([type |-> "scrape", ref |-> Candidate])
                /\ i' = i + 1
                /\ UNCHANGED <<pc, imageLocals>>
           ELSE IF IsDuplicate(FingerprintOf(Candidate), existingFingerprints)
           THEN /\ syncLog' = [syncLog EXCEPT !.listingsSkipped = @ + 1]
                /\ i' = i + 1
                /\ UNCHANGED <<pc, imageLocals, threw>>
           ELSE /\ imgIdx' = 0
                /\ imageUrls' = <<>>
                /\ pc' = "images"
                /\ UNCHANGED <<syncLog, i, threw>>
    /\ UNCHANGED <<fixed, pages, db, exit, existingFingerprints, browserOpen,
                   mainLocals, pageOpen, limitedUrls, listings, loads,
                   loadFailed, attempted, rehosted, dealerFaults, insertCalls>>

\* scrapeListingDetails' image loop calls processAndUploadImage, whose first
\* line is page.browser().newPage(), before its try: a rejection is caught
\* by the loop's catch, which only logs to the console.
OpenImagePage ==
    /\ pc = "images"
    /\ ~imagePage
    /\ imgIdx < MaxImages(site.nimg[Candidate])
    /\ \E opened \in BOOLEAN :
        IF opened
        THEN /\ imagePage' = TRUE
             /\ openPages' = openPages + 1
             /\ UNCHANGED <<imgIdx, attempted>>
        ELSE /\ imgIdx - Len(imageUrls) < MaxImageFaults
             /\ attempted' = attempted \cup {<<Candidate, imgIdx>>}
             /\ imgIdx' = imgIdx + 1
             /\ UNCHANGED pages
    /\ UNCHANGED <<fixed, paced, db, pc, exit, existingFingerprints,
                   browserOpen, syncLog, mainLocals, dealerLocals, imageUrls,
                   loads, loadFailed, fetched, threw, rehosted, dealerFaults,
                   insertCalls>>

\* As ProcessImage, but without the finally: imagePage.close() is called
\* only when nothing was thrown.
ProcessImageNoFinally ==
    /\ pc = "images"
    /\ imagePage
    /\ attempted' = attempted \cup {<<Candidate, imgIdx>>}
    /\ \/ /\ imageUrls' = Append(imageUrls, imgIdx)
          /\ syncLog' = [syncLog EXCEPT !.imagesUploaded = @ + 1]
          /\ rehosted' = rehosted \cup {<<Candidate, imgIdx>>}
          /\ openPages' = openPages - 1
       \/ /\ imgIdx - Len(imageUrls) < MaxImageFaults
          /\ \E failure \in {"throws", "upload-error"} :
                openPages' =
                    IF failure = "throws" THEN openPages ELSE openPages - 1
          /\ UNCHANGED <<imageUrls, syncLog, rehosted>>
    /\ imgIdx' = imgIdx + 1
    /\ imagePage' = FALSE
    /\ UNCHANGED <<fixed, paced, db, pc, exit, existingFingerprints, browserOpen,
                   mainLocals, dealerLocals, loads, loadFailed, fetched,
                   threw, dealerFaults, insertCalls>>

\* As ProcessImage, but a failed image ends the image loop.
ProcessImageStopsAtFailure ==
    /\ pc = "images"
    /\ imagePage
    /\ imagePage' = FALSE
    /\ openPages' = openPages - 1
    /\ attempted' = attempted \cup {<<Candidate, imgIdx>>}
    /\ \/ /\ imageUrls' = Append(imageUrls, imgIdx)
          /\ syncLog' = [syncLog EXCEPT !.imagesUploaded = @ + 1]
          /\ rehosted' = rehosted \cup {<<Candidate, imgIdx>>}
          /\ imgIdx' = imgIdx + 1
       \/ /\ imgIdx - Len(imageUrls) < MaxImageFaults
          /\ imgIdx' = MaxImages(site.nimg[Candidate])
          /\ UNCHANGED <<imageUrls, syncLog, rehosted>>
    /\ UNCHANGED <<fixed, paced, db, pc, exit, existingFingerprints, browserOpen,
                   mainLocals, dealerLocals, loads, loadFailed, fetched,
                   threw, dealerFaults, insertCalls>>

\* The rest of one turn of scrapeListingDetails' image loop, from the try of
\* processAndUploadImage on: it either returns the public URL (named here by
\* the image's index), or throws, or returns null because uploadImage got an
\* error; its finally closes the image page in each case; the loop's catch
\* only logs to the console.
ProcessImage ==
    /\ pc = "images"
    /\ imagePage
    /\ imagePage' = FALSE
    /\ openPages' = openPages - 1
    /\ attempted' = attempted \cup {<<Candidate, imgIdx>>}
    /\ \/ /\ imageUrls' = Append(imageUrls, imgIdx)
          /\ syncLog' = [syncLog EXCEPT !.imagesUploaded = @ + 1]
          /\ rehosted' = rehosted \cup {<<Candidate, imgIdx>>}
       \/ /\ imgIdx - Len(imageUrls) < MaxImageFaults
          /\ \E failure \in {"throws", "upload-error"} :
                UNCHANGED <<imageUrls, syncLog, rehosted>>
    /\ imgIdx' = imgIdx + 1
    /\ UNCHANGED <<fixed, paced, db, pc, exit, existingFingerprints, browserOpen,
                   mainLocals, dealerLocals, loads, loadFailed, fetched,
                   threw, dealerFaults, insertCalls>>

\* As AssembleListing, but the new fingerprint is added to the known set.
AssembleListingLiveSet ==
    /\ pc = "images"
    /\ imgIdx >= MaxImages(site.nimg[Candidate])
    /\ listings' = Append(listings,
            [id |-> Candidate, fingerprint |-> FingerprintOf(Candidate),
             price |-> Price(Candidate), images |-> imageUrls])
    /\ existingFingerprints' =
            existingFingerprints \cup {FingerprintOf(Candidate)}
    /\ i' = i + 1
    /\ pc' = "listing"
    /\ paced' = TRUE
    /\ UNCHANGED <<fixed, pages, db, exit, browserOpen, syncLog, mainLocals,
                   pageOpen, limitedUrls, imageLocals, loads, loadFailed,
                   scrapeHistory, dealerFaults, insertCalls>>

\* The end of scrapeListingDetails for a new listing and the rest of the
\* loop turn: the listing object is built and pushed on listings, and
\* delay(2000) elapses.
AssembleListing ==
    /\ pc = "images"
    /\ imgIdx >= MaxImages(site.nimg[Candidate])
    /\ listings' = Append(listings,
            [id |-> Candidate, fingerprint |-> FingerprintOf(Candidate),
             price |-> Price(Candidate), images |-> imageUrls])
    /\ i' = i + 1
    /\ pc' = "listing"
    /\ paced' = TRUE
    /\ UNCHANGED <<fixed, pages, db, exit, existingFingerprints, browserOpen,
                   syncLog, mainLocals, pageOpen, limitedUrls, imageLocals,
                   loads, loadFailed, scrapeHistory, dealerFaults,
                   insertCalls>>

\* scrapeDealer's finally: page.close(); its rejection leaves scrapeDealer.
CloseDealerPage ==
    /\ \/ pc = "pageclose"
       \/ pc = "listing" /\ i >= Len(limitedUrls)
    /\ \E closed \in BOOLEAN :
        IF closed
        THEN /\ pageOpen' = FALSE
             /\ openPages' = openPages - 1
             /\ pc' = "collect"
             /\ UNCHANGED <<exit, dealerFaults>>
        ELSE /\ pageOpen' = pageOpen
             /\ openPages' = openPages
             /\ pc' = "abort"
             /\ exit' = [code |-> -1, cause |-> "dealer-close"]
             /\ dealerFaults' = dealerFaults + 1
    /\ UNCHANGED <<fixed, imagePage, paced, db, existingFingerprints, browserOpen, syncLog,
                   mainLocals, limitedUrls, listings, i, imageLocals, loads,
                   loadFailed, scrapeHistory, insertCalls>>

\* -------------------------------------------------------------- main

\* As CollectDealer, but without the break at the cap.
CollectDealerNoBreak ==
    /\ pc = "collect"
    /\ LET all == allListings \o listings
       IN  /\ syncLog' = [syncLog EXCEPT !.listingsFound = @ + Len(listings)]
           /\ IF Len(all) >= config.maxTotalListings
              THEN allListings' = Take(all, config.maxTotalListings)
              ELSE allListings' = all
    /\ dealerIdx' = dealerIdx + 1
    /\ pc' = "dealers"
    /\ paced' = TRUE
    /\ listings' = <<>>
    /\ limitedUrls' = <<>>
    /\ i' = 0
    /\ UNCHANGED <<fixed, pages, db, exit, existingFingerprints, browserOpen,
                   insertIdx, pageOpen, imageLocals, loads, loadFailed,
                   scrapeHistory, dealerFaults, insertCalls>>

\* As CollectDealer, but at the cap the listings of the dealer just scraped
\* are not kept.
CollectDealerDropsDealer ==
    /\ pc = "collect"
    /\ LET all == allListings \o listings
       IN  /\ syncLog' = [syncLog EXCEPT !.listingsFound = @ + Len(listings)]
           /\ IF Len(all) >= config.maxTotalListings
              THEN /\ allListings' =
                            Take(allListings, config.maxTotalListings)
                   /\ dealerIdx' = dealerIdx
                   /\ pc' = "insert"
                   /\ paced' = paced
              ELSE /\ allListings' = all
                   /\ dealerIdx' = dealerIdx + 1
                   /\ pc' = "dealers"
                   /\ paced' = TRUE
    /\ listings' = <<>>
    /\ limitedUrls' = <<>>
    /\ i' = 0
    /\ UNCHANGED <<fixed, pages, db, exit, existingFingerprints, browserOpen,
                   insertIdx, pageOpen, imageLocals, loads, loadFailed,
                   scrapeHistory, dealerFaults, insertCalls>>

\* main after scrapeDealer returned: the dealer's listings are appended and
\* counted; at the cap allListings is cut and the loop is left, otherwise
\* delay(3000) elapses and the loop goes on with the next dealer.
\* scrapeDealer's locals are gone.
CollectDealer ==
    /\ pc = "collect"
    /\ LET all == allListings \o listings
       IN  /\ syncLog' = [syncLog EXCEPT !.listingsFound = @ + Len(listings)]
           /\ IF Len(all) >= config.maxTotalListings
              THEN /\ allListings' = Take(all, config.maxTotalListings)
                   /\ dealerIdx' = dealerIdx
                   /\ pc' = "insert"
                   /\ paced' = paced
              ELSE /\ allListings' = all
                   /\ dealerIdx' = dealerIdx + 1
                   /\ pc' = "dealers"
                   /\ paced' = TRUE
    /\ listings' = <<>>
    /\ limitedUrls' = <<>>
    /\ i' = 0
    /\ UNCHANGED <<fixed, pages, db, exit, existingFingerprints, browserOpen,
                   insertIdx, pageOpen, imageLocals, loads, loadFailed,
                   scrapeHistory, dealerFaults, insertCalls>>

\* main's for-of loop is through with config.dealers.
FinishDealers ==
    /\ pc = "dealers"
    /\ dealerIdx > Len(config.dealers)
    /\ pc' = "insert"
    /\ UNCHANGED <<fixed, pages, paced, db, exit, existingFingerprints, browserOpen,
                   syncLog, mainLocals, dealerLocals, imageLocals, loads,
                   loadFailed, scrapeHistory, dealerFaults, insertCalls>>

\* As InsertListing, but listingsNew counts the failed inserts as well.
InsertListingCountsErrors ==
    /\ pc = "insert"
    /\ insertIdx <= Len(allListings)
    /\ LET listing == allListings[insertIdx]
       IN  /\ insertCalls' = Append(insertCalls, listing.id)
           /\ \E error \in BOOLEAN :
                IF error
                THEN /\ syncLog' =
                            [PushError([type |-> "insert", ref |-> listing.id])
                                EXCEPT !.listingsNew = @ + 1]
                     /\ db' = db
                ELSE /\ syncLog' = [syncLog EXCEPT !.listingsNew = @ + 1]
                     /\ db' = db \cup {listing.fingerprint}
    /\ insertIdx' = insertIdx + 1
    /\ UNCHANGED <<fixed, pages, paced, pc, exit, existingFingerprints, browserOpen,
                   allListings, dealerIdx, dealerLocals, imageLocals, loads,
                   loadFailed, scrapeHistory, dealerFaults>>

\* One turn of main's insert loop: insertListing either stores the row, or
\* gets an error, which it records as an 'insert' error.
InsertListing ==
    /\ pc = "insert"
    /\ insertIdx <= Len(allListings)
    /\ LET listing == allListings[insertIdx]
       IN  /\ insertCalls' = Append(insertCalls, listing.id)
           /\ \E error \in BOOLEAN :
                IF error
                THEN /\ syncLog' =
                            PushError([type |-> "insert", ref |-> listing.id])
                     /\ db' = db
                ELSE /\ syncLog' = [syncLog EXCEPT !.listingsNew = @ + 1]
                     /\ db' = db \cup {listing.fingerprint}
    /\ insertIdx' = insertIdx + 1
    /\ UNCHANGED <<fixed, pages, paced, pc, exit, existingFingerprints, browserOpen,
                   allListings, dealerIdx, dealerLocals, imageLocals, loads,
                   loadFailed, scrapeHistory, dealerFaults>>

\* As CloseBrowser, but the insert loop is left at any turn.
CloseBrowserBeforeInserts ==
    /\ pc = "insert"
    /\ browserOpen' = FALSE
    /\ openPages' = 0
    /\ pc' = "report"
    /\ UNCHANGED <<fixed, imagePage, paced, db, exit, existingFingerprints, syncLog,
                   mainLocals, dealerLocals, imageLocals, loads, loadFailed,
                   scrapeHistory, dealerFaults, insertCalls>>

\* main's finally after the insert loop: browser.close(), which closes the
\* browser with the pages it has.
CloseBrowser ==
    /\ pc = "insert"
    /\ insertIdx > Len(allListings)
    /\ browserOpen' = FALSE
    /\ openPages' = 0
    /\ pc' = "report"
    /\ UNCHANGED <<fixed, imagePage, paced, db, exit, existingFingerprints, syncLog,
                   mainLocals, dealerLocals, imageLocals, loads, loadFailed,
                   scrapeHistory, dealerFaults, insertCalls>>

\* main's end: completedAt is set, sync-log.json is written, the summary is
\* printed.
WriteReport ==
    /\ pc = "report"
    /\ syncLog' = [syncLog EXCEPT !.completedAt = TRUE]
    /\ pc' = "done"
    /\ exit' = [code |-> 0, cause |-> "completed"]
    /\ UNCHANGED <<fixed, pages, paced, db, existingFingerprints, browserOpen, mainLocals,
                   dealerLocals, imageLocals, loads, loadFailed,
                   scrapeHistory, dealerFaults, insertCalls>>

\* An exception that left main's try block: the finally closes the browser,
\* main()'s promise rejects and main().catch exits with code 1.
AbortRun ==
    /\ pc = "abort"
    /\ browserOpen' = FALSE
    /\ openPages' = 0
    /\ pc' = "exited"
    /\ exit' = [exit EXCEPT !.code = 1]
    /\ UNCHANGED <<fixed, imagePage, paced, db, existingFingerprints, syncLog, mainLocals,
                   dealerLocals, imageLocals, loads, loadFailed,
                   scrapeHistory, dealerFaults, insertCalls>>

Terminated == pc \in {"done", "exited"}

\* The cap check of main's dealer loop came out true in this run.
CapReached == Len(allListings) >= config.maxTotalListings

\* The script is started again (the scheduled workflow); only the database
\* is carried over.
NextRun ==
    /\ Terminated
    /\ run < MaxRuns
    /\ run' = run + 1
    /\ prev' = [ran |-> TRUE,
                errorFree |-> pc = "done" /\ syncLog.errors = <<>>,
                capReached |-> pc = "done" /\ CapReached]
    /\ pc' = "boot"
    /\ config' = None
    /\ exit' = NoExit
    /\ existingFingerprints' = {}
    /\ browserOpen' = FALSE
    /\ syncLog' = FreshSyncLog
    /\ allListings' = <<>>
    /\ dealerIdx' = 1
    /\ pageOpen' = FALSE
    /\ limitedUrls' = <<>>
    /\ listings' = <<>>
    /\ i' = 0
    /\ imgIdx' = 0
    /\ imageUrls' = <<>>
    /\ imagePage' = FALSE
    /\ openPages' = 0
    /\ insertIdx' = 1
    /\ paced' = FALSE
    /\ loads' = 0
    /\ loadFailed' = FALSE
    /\ fetched' = <<>>
    /\ threw' = {}
    /\ attempted' = {}
    /\ rehosted' = {}
    /\ dealerFaults' = 0
    /\ insertCalls' = <<>>
    /\ UNCHANGED <<configFile, maxOverride, site, db, parserVars>>

Next ==
    \/ CheckCredentials
    \/ LoadConfig
    \/ GetExistingFingerprints
    \/ LaunchBrowser
    \/ BeginDealer
    \/ DealerSearch
    \/ ScrapeListing
    \/ OpenImagePage
    \/ ProcessImage
    \/ AssembleListing
    \/ CloseDealerPage
    \/ CollectDealer
    \/ FinishDealers
    \/ InsertListing
    \/ CloseBrowser
    \/ WriteReport
    \/ AbortRun
    \/ NextRun

Spec == Init /\ [][Next]_vars

SpecImages == InitImages /\ [][Next]_vars

\* ----------------------------------------------------------- parsers

processVars ==
    <<configFile, maxOverride, config, site, db, run, pc, exit,
      existingFingerprints, browserOpen, syncLog, allListings, dealerIdx,
      pageOpen, limitedUrls, listings, i, imgIdx, imageUrls, imagePage,
      openPages, insertIdx, paced, loads, loadFailed, fetched, threw, attempted, rehosted, dealerFaults,
      insertCalls, prev>>

\* scrapeListingDetails calls normalizeValue on a raw text.
CallNormalizeValue ==
    /\ call.fn = "normalizeValue"
    /\ ~returned
    /\ result' = normalizeValue(call.arg, MapOf(call.map))
    /\ returned' = TRUE
    /\ UNCHANGED <<call, processVars>>

\* scrapeListingDetails calls parseMakeModel on the title.
CallParseMakeModel ==
    /\ call.fn = "parseMakeModel"
    /\ ~returned
    /\ result' = parseMakeModel(call.arg)
    /\ returned' = TRUE
    /\ UNCHANGED <<call, processVars>>

\* scrapeListingDetails builds the enum-typed fields of the listing object.
BuildEnumFields ==
    /\ call.fn = "scrapeListingDetails"
    /\ ~returned
    /\ result' = EnumFields(call.arg)
    /\ returned' = TRUE
    /\ UNCHANGED <<call, processVars>>

\* scrapeListingDetails calls generateFingerprint for each of two listing
\* pages.
CallGenerateFingerprint ==
    /\ call.fn = "generateFingerprint"
    /\ ~returned
    /\ result' = <<FingerprintOfPage(call.arg[1]),
                   FingerprintOfPage(call.arg[2])>>
    /\ returned' = TRUE
    /\ UNCHANGED <<call, processVars>>

NextParsers ==
    \/ CallNormalizeValue
    \/ CallParseMakeModel
    \/ BuildEnumFields
    \/ CallGenerateFingerprint

SpecParsers == InitParsers /\ [][NextParsers]_vars

\* -------------------------------------------------------- properties

Ids(ls) == [k \in 1..Len(ls) |-> ls[k].id]

\* Listings whose page was fetched and read without an exception.
Loaded == Range(fetched) \ threw

KnownLoaded ==
    IF existingFingerprints = {}
    THEN {}
    ELSE {c \in Loaded : FingerprintOf(c) \in existingFingerprints}

\* The fetched listings with an unknown fingerprint, in fetch order.
IsNew(c) ==
    /\ c \notin threw
    /\ existingFingerprints = {} \/ FingerprintOf(c) \notin existingFingerprints

NewCands == SelectSeq(fetched, IsNew)

InProgress == IF pc = "images" THEN <<Candidate>> ELSE <<>>

Assembled == allListings \o listings

ErrorsOfType(t) == {k \in 1..Len(syncLog.errors) : syncLog.errors[k].type = t}

ErrorsFor(t, ref) ==
    {k \in ErrorsOfType(t) : syncLog.errors[k].ref = ref}

AttemptedOf(c) == {a[2] : a \in {b \in attempted : b[1] = c}}

RehostedOf(c) == {a[2] : a \in {b \in rehosted : b[1] = c}}

AfterDealerLoop == pc \in {"insert", "report", "done"}

\* C1: a loaded candidate whose fingerprint is in the known set gets no
\* processAndUploadImage call and no listing record, and each such candidate
\* counts exactly one skip: listingsSkipped is the number of them.
C1_DedupShortCircuit ==
    LET known == KnownLoaded
        assembled == Range(Ids(Assembled))
    IN  /\ \A c \in known :
            /\ AttemptedOf(c) = {}
            /\ c \notin assembled
            /\ ~(pc = "images" /\ Candidate = c)
        /\ syncLog.listingsSkipped = Cardinality(known)

C1_Witness ==
    /\ KnownLoaded # {}
    /\ syncLog.listingsSkipped = 2
    /\ pc = "done"

C3_NewCandidatesAllProcessed ==
    /\ loads <= 1
    /\ loads = 0 => fetched = <<>> /\ syncLog.dealers = <<>>
    /\ IF AfterDealerLoop
       THEN Ids(allListings) = Take(NewCands, config.maxTotalListings)
       ELSE Ids(Assembled) \o InProgress = NewCands
    /\ pc \in {"report", "done"} => insertCalls = Ids(allListings)

\* C3: the known set never changes after it was loaded, and the state part.
C3_KnownSetIsSnapshot ==
    /\ []C3_NewCandidatesAllProcessed
    /\ [][(loads = 1 /\ run' = run) =>
            existingFingerprints' = existingFingerprints]_vars

\* Two listings of one run with the same fingerprint, both inserted.
C3_Witness ==
    /\ pc = "done"
    /\ \E j, k \in 1..Len(insertCalls) :
        /\ j < k
        /\ FingerprintOf(insertCalls[j]) = FingerprintOf(insertCalls[k])
        /\ FingerprintOf(insertCalls[j]) \notin existingFingerprints

\* C4: whatever images fail, all retained images of a candidate are
\* attempted and the candidate yields its listing, whose images are exactly
\* the retained images that were rehosted; a failed image never makes the
\* candidate throw.
C4_ImageFailureIsLocal ==
    /\ \A k \in 1..Len(Assembled) :
        LET l == Assembled[k]
        IN  /\ AttemptedOf(l.id) =
                    0..(Min(site.nimg[l.id], IMAGE_LIMIT) - 1)
            /\ Range(l.images) = RehostedOf(l.id)
            /\ Len(l.images) = Cardinality(RehostedOf(l.id))
    /\ \A a \in attempted :
        /\ a[1] \notin threw
        /\ ErrorsFor("scrape", a[1]) = {}
        /\ ~AfterDealerLoop =>
                a[1] \in Range(Ids(Assembled) \o InProgress)

\* Ten images attempted, the fourth failed, the other nine in the listing.
C4_Witness ==
    \E k \in 1..Len(allListings) :
        /\ allListings[k].images = <<0, 1, 2, 4, 5, 6, 7, 8, 9>>
        /\ AttemptedOf(allListings[k].id) = 0..9

\* C5 as claimed: syncLog.errors holds one entry per image that was
\* attempted and not rehosted.
C5_Original ==
    Cardinality(ErrorsOfType("image")) =
        Cardinality(attempted) - Cardinality(rehosted)

\* C6: a listing with n source images had exactly its first min(n, 10)
\* images attempted, holds at most 10 images, and holds them in source
\* order.
C6_ImageCap ==
    /\ \A k \in 1..Len(Assembled) :
        LET l == Assembled[k]
        IN  /\ AttemptedOf(l.id) =
                    {x \in 0..(site.nimg[l.id] - 1) : x < IMAGE_LIMIT}
            /\ Len(l.images) <= IMAGE_LIMIT
            /\ \A x, y \in 1..Len(l.images) :
                    x < y => l.images[x] < l.images[y]
    /\ \A a \in attempted : a[2] < IMAGE_LIMIT /\ a[2] < site.nimg[a[1]]

\* More source images than the cap, and a full listing.
C6_Witness ==
    \E k \in 1..Len(allListings) :
        /\ site.nimg[allListings[k].id] > IMAGE_LIMIT
        /\ Len(allListings[k].images) = IMAGE_LIMIT

\* The turns of scrapeDealer's loop taken so far for the current dealer.
Turns == i + Len(InProgress)

\* C7: a candidate that threw has exactly one 'scrape' error entry, no
\* listing and no skip (every fetched candidate is exactly one of thrown,
\* skipped, assembled); and the loop still takes every candidate of
\* limitedUrls in order.
C7_CandidateFailureIsLocal ==
    /\ \A c \in threw :
        /\ Cardinality(ErrorsFor("scrape", c)) = 1
        /\ c \notin Range(Ids(Assembled) \o InProgress)
    /\ Cardinality(ErrorsOfType("scrape")) = Cardinality(threw)
    /\ Len(fetched) =
            Cardinality(threw) + syncLog.listingsSkipped
                + syncLog.listingsFound + Len(listings) + Len(InProgress)
    /\ pc \in {"listing", "images", "collect"} =>
        /\ Turns <= Len(fetched)
        /\ SubSeq(fetched, Len(fetched) - Turns + 1, Len(fetched)) =
                SubSeq(limitedUrls, 1, Turns)
    /\ pc = "collect" => i = Len(limitedUrls)

\* The first of two candidates threw and the dealer's loop is through.
C7_Witness ==
    /\ pc = "collect"
    /\ Len(limitedUrls) >= 2
    /\ limitedUrls[1] \in threw
    /\ limitedUrls[2] \notin threw
    /\ i = Len(limitedUrls)

\* C8 as claimed: every rejected await of scrapeDealer outside the listing
\* loop is recorded as a 'dealer' error and none ends the run.
C8_Original ==
    /\ Cardinality(ErrorsOfType("dealer")) = dealerFaults
    /\ dealerFaults > 0 => pc \notin {"abort", "exited"}

\* C9 as claimed: a process that got past startup and the browser launch
\* ends only after the report was written.
C9_Original ==
    (Terminated /\ exit.cause \notin {"credentials", "config", "disabled",
                                     "launch"})
        => syncLog.completedAt

\* C10: when the listings collected after a dealer reach the cap the dealer
\* loop is left, and after the loop no dealer is visited and no listing
\* page fetched.
C10_CapHaltsDealers ==
    /\ [][(pc = "collect"
            /\ Len(allListings) + Len(listings) >= config.maxTotalListings)
            => pc' = "insert"]_vars
    /\ [][(AfterDealerLoop /\ run' = run) =>
            /\ fetched' = fetched
            /\ syncLog'.dealers = syncLog.dealers
            /\ dealerIdx' = dealerIdx
            /\ AfterDealerLoop']_vars

\* The cap was reached with a dealer of the roster left unvisited.
C10_Witness ==
    /\ pc = "insert"
    /\ Len(allListings) >= config.maxTotalListings
    /\ Len(syncLog.dealers) < Len(config.dealers)
    /\ Len(allListings) > 0

\* The new candidates of dealer d, in fetch order.
NewCandsOf(d) ==
    LET OfDealer(c) == c \in Range(site.search[d])
    IN  SelectSeq(NewCands, OfDealer)

\* What insertListing was called with for dealer d's listings, in order.
InsertedOf(d) ==
    LET OfDealer(c) == c \in Range(site.search[d])
    IN  SelectSeq(insertCalls, OfDealer)

\* The run is through with the inserts, and the listings its dealers
\* returned reached the cap: it left the dealer loop at the cap.
StoppedAtCap ==
    /\ pc \in {"report", "done"}
    /\ syncLog.listingsFound >= config.maxTotalListings

\* C11 as claimed: when the run stopped at a (positive) cap, every listing
\* assembled from the candidates of the dealer scraped last was handed to
\* insertListing.
C11_Original ==
    (StoppedAtCap /\ config.maxTotalListings > 0)
        => InsertedOf(Dealer) = NewCandsOf(Dealer)

\* C11 as amended: when the run stopped at the cap, the listings of the
\* dealer scraped last are kept as far as the cap allows: of the listings
\* assembled from its candidates, the first (cap minus the listings of the
\* dealers before it), in assembly order, are handed to insertListing, and
\* no other listing of that dealer is.
C11_PartialResultsKeptUpToCap ==
    StoppedAtCap =>
        InsertedOf(Dealer) =
            Take(NewCandsOf(Dealer),
                 config.maxTotalListings
                    - (Len(NewCands) - Len(NewCandsOf(Dealer))))

\* The cap was reached by the second dealer, which had two listings
\* assembled, one of them kept.
C11_Witness ==
    /\ StoppedAtCap
    /\ pc = "done"
    /\ dealerIdx = 2
    /\ Len(NewCandsOf(Dealer)) = 2
    /\ Len(InsertedOf(Dealer)) = 1

\* The cap main works with: a positive MAX_LISTINGS_OVERRIDE, otherwise
\* settings.maxTotalListings of the file.
EffectiveCap ==
    IF maxOverride > 0 THEN maxOverride ELSE configFile.maxTotalListings

\* C12: the listings handed to insertListing in a run, and the listings
\* main holds once the dealer loop is left, are never more than the cap in
\* force.
C12_InsertsWithinCap ==
    /\ Len(insertCalls) <= EffectiveCap
    /\ AfterDealerLoop => Len(allListings) <= EffectiveCap

\* An override of 1 over a configured cap of NumCands: two listings found,
\* one inserted.
C12_Witness ==
    /\ pc = "done"
    /\ maxOverride = 1
    /\ configFile.maxTotalListings > 1
    /\ syncLog.listingsFound >= 2
    /\ Len(insertCalls) = 1

\* The listing pages fetched for dealer d, in order.
FetchedOf(d) ==
    LET ofDealer == Range(site.search[d])
        OfDealer(c) == c \in ofDealer
    IN  SelectSeq(fetched, OfDealer)

\* C13: for every dealer visited, at most maxListingsPerDealer listing pages
\* are fetched, each once, and the k-th of them is the k-th distinct id of the
\* search page in page order.
C13_PerDealerCap ==
    \A k \in 1..Len(syncLog.dealers) :
        LET d == syncLog.dealers[k]
            f == FetchedOf(d)
            links == site.search[d]
        IN  /\ Len(f) <= config.maxListingsPerDealer
            /\ \A n \in 1..Len(f) :
                    /\ \A m \in 1..(n - 1) : f[m] # f[n]
                    /\ \E j \in 1..Len(links) :
                            /\ links[j] = f[n]
                            /\ \A b \in 1..(j - 1) :
                                    \E m \in 1..(n - 1) : f[m] = links[b]

\* A dealer's loop is through with fewer fetches than the page has ids.
C13_Witness ==
    /\ pc = "collect"
    /\ Len(FetchedOf(Dealer)) = config.maxListingsPerDealer
    /\ Cardinality(Range(site.search[Dealer])) > config.maxListingsPerDealer

\* Two listing pages show the same make, model, mileage and first
\* registration.
SameIdentity(c1, c2) ==
    LET r1 == RawData(c1)
        r2 == RawData(c2)
    IN  /\ r1.make = r2.make
        /\ r1.model = r2.model
        /\ r1.mileage = r2.mileage
        /\ r1.firstRegistration = r2.firstRegistration

\* The pairs of different listings of the site that show the same vehicle.
SameVehicle ==
    UNION {{<<c1, c2>> : c2 \in {c \in (c1 + 1)..NumCands : SameIdentity(c1, c)}} :
            c1 \in 1..NumCands}

\* The loaded candidates the run took as new.
TakenAsNew == Range(Ids(Assembled) \o InProgress)

\* C14: two listings of a run that agree in make, model, mileage and first
\* registration carry the same fingerprint, and two loaded candidates that
\* agree in them get the same dedup decision, whatever their ids, prices and
\* images and whichever is scraped first.
C14_FingerprintOfIdentityOnly ==
    LET records == Assembled
        loaded == Loaded
        taken == TakenAsNew
    IN  \A p \in SameVehicle :
            /\ \A j, k \in 1..Len(records) :
                    (records[j].id = p[1] /\ records[k].id = p[2])
                        => records[j].fingerprint = records[k].fingerprint
            /\ (~AfterDealerLoop /\ p[1] \in loaded /\ p[2] \in loaded) =>
                    (p[1] \in taken <=> p[2] \in taken)

\* Two loaded candidates of different dealers with the same identity fields
\* and different prices, both skipped.
C14_Witness ==
    /\ pc = "collect"
    /\ \E p \in SameVehicle :
        /\ p[1] \in Loaded \ TakenAsNew
        /\ p[2] \in Loaded \ TakenAsNew
        /\ RawData(p[1]).price # RawData(p[2]).price
    /\ syncLog.listingsSkipped >= 2

NotThrown(c) == c \notin threw

\* C18: when the fingerprint query returned an error the process goes on to
\* the browser launch with an empty known set: it never ends on account of
\* the query, no candidate is skipped, and every loaded candidate is taken as
\* new.
C18_QueryFailureTolerated ==
    loadFailed =>
        /\ loads = 1
        /\ existingFingerprints = {}
        /\ syncLog.listingsSkipped = 0
        /\ pc \notin {"boot", "config", "fingerprints"}
        /\ pc = "exited" =>
                exit.cause \in {"launch", "dealer-open", "dealer-close"}
        /\ ~AfterDealerLoop =>
                Ids(Assembled) \o InProgress = SelectSeq(fetched, NotThrown)

\* The query failed over a table that holds the first listing's fingerprint,
\* and that listing was assembled as new.
C18_Witness ==
    /\ loadFailed
    /\ run = 1
    /\ pc = "collect"
    /\ FingerprintOf(1) \in db
    /\ 1 \in Range(Ids(listings))

\* No dealer was visited, no page fetched, no image processed, no listing
\* inserted.
NoCandidateWork ==
    /\ syncLog.dealers = <<>>
    /\ fetched = <<>>
    /\ attempted = {}
    /\ insertCalls = <<>>
    /\ ~paced

\* Missing credentials or an unloadable configuration have ended the process
\* with a non-zero code before the fingerprint query, the browser launch and
\* any candidate work.
StartupFailureAborts ==
    exit.cause \in {"credentials", "config"} =>
        /\ pc = "exited"
        /\ exit.code > 0
        /\ loads = 0
        /\ ~browserOpen
        /\ NoCandidateWork

\* C19 as claimed: missing credentials, an unloadable configuration, and a
\* persistence sink that does not answer the query at startup each end the
\* process at once with a non-zero code and without candidate work.
C19_Original ==
    /\ StartupFailureAborts
    /\ loadFailed =>
            /\ pc = "exited"
            /\ exit.code > 0
            /\ NoCandidateWork

\* C19 as amended: missing credentials and an unloadable configuration end
\* the process at once with a non-zero code and without candidate work, and
\* nothing else ends it before the fingerprint query; a failed query does
\* not end it (a process that ends after one without having begun a dealer
\* ends on the browser launch).
C19_FatalStartupAborts ==
    /\ StartupFailureAborts
    /\ (pc = "exited" /\ loads = 0) =>
            exit.cause \in {"credentials", "config", "disabled"}
    /\ (pc = "exited" /\ loadFailed /\ syncLog.dealers = <<>>) =>
            exit.cause = "launch"

\* A second run ended at the configuration, over a table the first run
\* filled.
C19_Witness ==
    /\ run = 2
    /\ pc = "exited"
    /\ exit = [code |-> 1, cause |-> "config"]
    /\ db # {}

\* C20 as claimed: when a listing page is fetched after another one of the
\* same dealer, and when a dealer is begun after another one, a delay has
\* elapsed since the last page fetch.
C20_Original ==
    /\ [][(run' = run /\ Len(fetched') > Len(fetched) /\ i > 0)
            => paced]_vars
    /\ [][(run' = run /\ Len(syncLog'.dealers) > Len(syncLog.dealers)
                /\ syncLog.dealers # <<>>)
            => paced]_vars

Values(map) == {map[k].val : k \in 1..Len(map)}

\* The resolution as claimed: the value of the entry whose key is the input;
\* else of the first entry whose key is the input up to case; else of the
\* first entry whose key occurs in the input up to case; else null; null
\* for a null or empty input.
Resolved(value, map) ==
    IF Falsy(value)
    THEN None
    ELSE LET lower == toLowerCase(value[1])
             own == {k \in 1..Len(map) : map[k].key = value[1]}
             same == {k \in 1..Len(map) : toLowerCase(map[k].key) = lower}
             part == {k \in 1..Len(map) :
                        includes(lower, toLowerCase(map[k].key))}
         IN  IF own # {}
             THEN Some(map[First(own)].val)
             ELSE IF same # {}
             THEN Some(map[First(same)].val)
             ELSE IF part # {}
             THEN Some(map[First(part)].val)
             ELSE None

\* C15 as claimed: normalizeValue returns what the three tiers resolve the
\* input to, and null when none does.
C15_Original ==
    (returned /\ call.fn = "normalizeValue")
        => result = Resolved(call.arg, MapOf(call.map))

\* C16 as claimed: each enum-typed field of the listing object is null or a
\* value of the map it is translated with, whatever the raw text.
C16_Original ==
    (returned /\ call.fn = "scrapeListingDetails") =>
        \A f \in DOMAIN MapOfField :
            \/ result[f] = None
            \/ \E v \in Values(MapOf(MapOfField[f])) : result[f] = Some(v)

\* C17 as claimed: make is null or one of knownMakes.
C17_Original ==
    (returned /\ call.fn = "parseMakeModel") =>
        \/ result.make = None
        \/ \E k \in 1..Len(knownMakes) : result.make = Some(knownMakes[k])

\* The title up to its first blank.
FirstWord(title) ==
    LET blanks == {k \in 1..Len(title) : CharAt(title, k) = " "}
    IN  IF blanks = {} THEN title ELSE SubSeq(title, 1, First(blanks) - 1)

\* C17 as amended: make is a known make the title begins with; when the
\* title begins with none it is the title's first word, whatever that is;
\* it is null only for an empty title.
C17_MakeKnownOrFirstWord ==
    (returned /\ call.fn = "parseMakeModel") =>
        IF Falsy(call.arg)
        THEN result.make = None
        ELSE LET title == call.arg[1]
                 known == {k \in 1..Len(knownMakes) :
                            /\ Len(knownMakes[k]) <= Len(title)
                            /\ SubSeq(title, 1, Len(knownMakes[k]))
                                    = knownMakes[k]}
             IN  IF known # {}
                 THEN \E k \in known : result.make = Some(knownMakes[k])
                 ELSE result.make = Some(FirstWord(title))

\* A title that begins with no known make: its first word is the make.
C17_Witness ==
    /\ returned
    /\ call.fn = "parseMakeModel"
    /\ call.arg = Some("Dacia Duster")
    /\ result = [make |-> Some("Dacia"), model |-> Some("Duster")]

\* The phase a position of the process belongs to, in the order Idle,
\* LoadingKnownFingerprints, dealer/candidate iteration, Persisting,
\* Reporting, Done.
Phase ==
    [p \in {"boot", "config", "fingerprints", "launch", "dealers", "search",
            "listing", "images", "pageclose", "collect", "insert", "report",
            "done"} |->
        CASE p \in {"boot", "config"} -> 0
          [] p = "fingerprints" -> 1
          [] p \in {"launch", "dealers", "search", "listing", "images",
                    "pageclose", "collect"} -> 2
          [] p = "insert" -> 3
          [] p = "report" -> 4
          [] p = "done" -> 5]

\* The process is on its way out through an exception or process.exit.
Leaving(p) == p \in {"abort", "exited"}

\* C21: within a run the phases follow each other in the order Idle,
\* LoadingKnownFingerprints, dealer/candidate iteration, Persisting,
\* Reporting, Done (a run may leave the order only by ending early): the
\* known set has been loaded, and no listing has been handed to
\* insertListing, when a dealer is begun or a listing page is fetched; a
\* listing is handed to insertListing only when no dealer is in progress, and
\* the next one in allListings order; the report is completed only when
\* insertListing was called for every listing of allListings; and
\* processAndUploadImage is called only for the listing fetched last, after
\* its page was read and its fingerprint was looked up and found unknown.
C21_PhaseOrder ==
    /\ [][(run' = run /\ ~Leaving(pc) /\ ~Leaving(pc'))
            => Phase[pc'] \in {Phase[pc], Phase[pc] + 1}]_vars
    /\ [][(run' = run /\ (fetched' # fetched
                            \/ syncLog'.dealers # syncLog.dealers))
            => /\ loads = 1
               /\ insertCalls = <<>>
               /\ Phase[pc] = 2]_vars
    /\ [][(run' = run /\ insertCalls' # insertCalls)
            => /\ Phase[pc] = 3
               /\ ~pageOpen
               /\ listings = <<>>
               /\ insertCalls' =
                    Append(insertCalls, allListings[Len(insertCalls) + 1].id)
               /\ fetched' = fetched
               /\ attempted' = attempted]_vars
    /\ [][(run' = run /\ syncLog'.completedAt /\ ~syncLog.completedAt)
            => /\ Phase[pc] = 4
               /\ insertCalls = Ids(allListings)]_vars
    /\ [][(run' = run /\ attempted' # attempted)
            => /\ fetched # <<>>
               /\ \A a \in attempted' \ attempted :
                    /\ a[1] = fetched[Len(fetched)]
                    /\ a[1] \notin threw
                    /\ FingerprintOf(a[1]) \notin existingFingerprints
               /\ syncLog'.listingsSkipped = syncLog.listingsSkipped]_vars

\* A run went through every phase: it skipped a known listing, processed
\* an image of a new one, called insertListing and completed the report.
C21_Witness ==
    /\ pc = "done"
    /\ syncLog.completedAt
    /\ syncLog.listingsSkipped > 0
    /\ attempted # {}
    /\ insertCalls # <<>>
    /\ loads = 1

\* C22 as claimed, for a positive cap: when the run is through with its
\* inserts, every image that was uploaded belongs to a listing that was
\* handed to insertListing.
C22_Original ==
    (pc \in {"report", "done"} /\ config.maxTotalListings > 0) =>
        \A a \in rehosted : a[1] \in Range(insertCalls)

\* C23: when the run has completed, every scrapeListingDetails call is
\* counted once, as a skip, as a listing found or as a 'scrape' error, and
\* the inserts that succeeded and the 'insert' errors add up to the listings
\* found, cut to maxTotalListings.
C23_CountersAccount ==
    pc = "done" =>
        /\ Len(fetched) =
                syncLog.listingsSkipped + syncLog.listingsFound
                    + Cardinality(ErrorsOfType("scrape"))
        /\ syncLog.listingsNew + Cardinality(ErrorsOfType("insert")) =
                Min(syncLog.listingsFound, config.maxTotalListings)

\* A completed run with a failed candidate, more listings found than the
\* cap allows, an insert that succeeded and one that failed.
C23_Witness ==
    /\ pc = "done"
    /\ ErrorsOfType("scrape") # {}
    /\ ErrorsOfType("insert") # {}
    /\ syncLog.listingsNew > 0
    /\ syncLog.listingsFound > config.maxTotalListings

\* C24 as claimed: two listing pages get the same fingerprint only if their
\* (make, model, mileage, first registration) are the same, an absent field
\* being different from every value.
C24_Original ==
    (returned /\ call.fn = "generateFingerprint") =>
        (result[1] = result[2]
            => Identity(call.arg[1]) = Identity(call.arg[2]))

====
